---- MODULE Spec2Model ----
(***************************************************************************)
(* A state-machine model of mm::Allocator<T> (mmap_allocator.h): a file    *)
(* backed allocator whose handles share one file descriptor, one SizeMap   *)
(* (address -> rounded size) and one FreeMap (rounded size -> stack of     *)
(* addresses) through shared_ptr.                                          *)
(*                                                                         *)
(* Addresses are abstract: NULL, MAP_FAILED (the pointer -1) and the block   *)
(* addresses 1, 2, ... that successful  mmap calls hand out.  Sizes and    *)
(* file lengths are byte counts.                                           *)
(***************************************************************************)
EXTENDS Integers, Sequences, FiniteSets, TLC

(* ------------------------------ constants ------------------------------ *)

\* const int kPageSize = sysconf(_SC_PAGE_SIZE)
kPageSize == 4096

\* the null pointer allocate returns after a failed lseek or write
NULL == 0

\* the pointer value -1, what mmap returns on failure
MAP_FAILED == -1

\* the first descriptor open() can return: 0, 1 and 2 are the standard streams
FirstFd == 3

(* -------------------------------- bounds ------------------------------- *)

\* cap on the backing file's length, in pages
MaxFilePages == 2

\* number of Allocator handle objects alive at once
MaxHandles == 2

\* number of successful open() calls (descriptors are never closed)
MaxOpens == 2

\* number of deallocate calls given an address that is not live
MaxMisuse == 1

\* number of calls the two threads begin in all
MaxCalls == 6

\* largest element count of the page-rounding specification
MaxCount == 1100

Min(S) == CHOOSE x \in S : \A y \in S : x <= y

Max2(a, b) == IF a >= b THEN a ELSE b

(* ------------------------------ input sets ----------------------------- *)

\* sizeof(T) of the element types the handles are instantiated with
\* (char and double, as in the tests)
ElemSizes == {1, 8}

\* element counts passed to allocate: 0, 1, and one element more than a page
\* of doubles
Counts == {0, 1, (kPageSize \div 8) + 1}

\* what the environment does to one allocate call
Envs == {"ok", "write_fails", "mmap_fails"}

\* element counts passed to allocate in the life-cycle specification
LifeCounts == {1}

\* sizeof(T) values of the page-rounding specification
RoundElemSizes == {1, 4, 8, 32}

\* file names passed to SetDefault (the tests use this one for every arena)
Paths == {"test.db"}

\* block addresses mmap can return: every block takes at least one page of
\* the file, so there are no more blocks than pages
Addrs == 1..MaxFilePages

\* pointers a caller can pass to deallocate
Ptrs == Addrs \cup {NULL, MAP_FAILED}

\* identities of the heap objects made by `new SizeMap()` / `new FreeMap()`
ObjIds == 1..MaxOpens

HandleIds == 1..MaxHandles

(* ------------------------------- helpers ------------------------------- *)

EmptyMap == [x \in {} |-> 0]

\* std::map insert-or-assign: m[k] = v
Put(m, k, v) == [x \in (DOMAIN m) \cup {k} |-> IF x = k THEN v ELSE m[x]]

\* std::map::operator[] as an lvalue read: a missing key is inserted with a
\* value-initialised mapped value
Touch(m, k, dflt) == IF k \in DOMAIN m THEN m ELSE Put(m, k, dflt)

VARIABLES
    default_allocator,  \* the heap Allocator<char> the global pointer refers to
    handles,            \* the Allocator<T> objects held by containers
    fds,                \* the process's open descriptors: fd -> path
    files,              \* the file system: path -> length in bytes
    mappings,           \* mmap'ed regions: address -> [fd, off, len]
    sizemaps,           \* the SizeMap objects: id -> (address -> size)
    freemaps,           \* the FreeMap objects: id -> (size -> sequence of addresses)
    use_count,          \* shared_ptr use count of each SizeMap/FreeMap pair
    live,               \* history: id -> addresses returned and not deallocated since
    recent,             \* history: id -> (size -> the latest address returned for it)
    misuse,             \* history: number of deallocate calls given an address that was not live
    last,               \* the latest call and its result
    origin,             \* history: handle -> the root object it derives from
    rq,                 \* the request of the page-rounding specification
    threads             \* the calls in progress on two threads, and the offset of each descriptor

vars == <<default_allocator, handles, fds, files, mappings, sizemaps, freemaps,
          use_count, live, recent, origin, misuse, last, rq, threads>>

(* ------------------------- pure parts of the code ---------------------- *)

\* a mutation of ToAlloc: always adds a page, also to an exact multiple
ToAlloc_AlwaysAddsPage(n, T) == (((n * T) \div kPageSize) + 1) * kPageSize

\* allocate, lines 67-70: the request in bytes, rounded up to a page multiple
ToAlloc(n, T) ==
    LET to_alloc == n * T
    IN  IF to_alloc % kPageSize # 0
        THEN ((to_alloc \div kPageSize) + 1) * kPageSize
        ELSE to_alloc

\* a mutation of LseekEnd: SEEK_SET in place of SEEK_END
LseekEnd_FromStart(end, offset) == IF offset < 0 THEN -1 ELSE offset

\* lseek(fd_, offset, SEEK_END) on a file of length `end`: the resulting
\* offset, or -1 (EINVAL) when it would be negative.  allocate passes
\* to_alloc - 1, which for to_alloc = 0 wraps to SIZE_MAX and reaches lseek
\* as off_t -1.
LseekEnd(end, offset) == IF end + offset < 0 THEN -1 ELSE end + offset

\* mmap(0, len, PROT_READ | PROT_WRITE, MAP_SHARED, fd_, off): EINVAL for a
\* zero length or an unaligned offset, ENOMEM (env_ok = FALSE) when the
\* kernel refuses; otherwise an address no mapping uses yet
Mmap(maps, len, off, env_ok) ==
    IF len = 0 \/ off % kPageSize # 0 \/ ~env_ok \/ Addrs \subseteq DOMAIN maps
    THEN MAP_FAILED
    ELSE Min(Addrs \ DOMAIN maps)

\* a mutation of PopBlock: takes the oldest entry of the bucket
PopBlock_Front(vec) == [addr |-> vec[1], rest |-> SubSeq(vec, 2, Len(vec))]

\* a mutation of PopBlock: vec.back() without vec.pop_back()
PopBlock_NoPop(vec) == [addr |-> vec[Len(vec)], rest |-> vec]

\* allocate, lines 74-75: vec.back() and vec.pop_back()
PopBlock(vec) == [addr |-> vec[Len(vec)], rest |-> SubSeq(vec, 1, Len(vec) - 1)]

\* a mutation of RecordSize: the registry is not updated
RecordSize_Forgotten(sizes, addr, to_alloc) == sizes

\* allocate, line 90: the registry entry of addr is set to to_alloc
RecordSize(sizes, addr, to_alloc) == Put(sizes, addr, to_alloc)

\* a mutation of PushBlock: the address is put at the front of the bucket
PushBlock_Front(vec, p) == <<p>> \o vec

\* deallocate, line 96: push_back
PushBlock(vec, p) == Append(vec, p)

\* a mutation of HandleEq: handles of different element types are unequal
HandleEq_SameTypeOnly(a, b) == a.fd_ = b.fd_ /\ a.T = b.T

\* operator==, lines 125-128 (a.fd() read as the member fd_)
HandleEq(a, b) == a.fd_ = b.fd_

\* a mutation of CopyHandle: the state is taken from the default allocator,
\* as the default constructor does, instead of from `other`
CopyHandle_FromDefault(other, U) ==
    IF default_allocator.st = "valid"
    THEN [fd_ |-> default_allocator.fd_, sizes_ |-> default_allocator.sizes_,
          free_blocks_ |-> default_allocator.free_blocks_, T |-> U]
    ELSE [fd_ |-> other.fd_, sizes_ |-> other.sizes_,
          free_blocks_ |-> other.free_blocks_, T |-> U]

\* the converting copy constructor, lines 59-63
CopyHandle(other, U) ==
    [fd_ |-> other.fd_, sizes_ |-> other.sizes_,
     free_blocks_ |-> other.free_blocks_, T |-> U]

\* open(filename, O_RDWR | O_CREAT | O_TRUNC, 0777): the lowest descriptor
\* not in use
LowestFreeFd == Min((FirstFd .. (FirstFd + MaxOpens)) \ DOMAIN fds)

\* new SizeMap(), new FreeMap(): a heap object no shared_ptr owns
FreshObj == Min({i \in ObjIds : use_count[i] = 0})

(* ------------------------------ the calls ------------------------------ *)

\* op: the call; h: the handle it was made through; to_alloc: the rounded size
\* (allocate) or the size found in the registry (deallocate); ret: the value
\* returned (allocate) or the pointer passed (deallocate); how: the path taken
NoCall == [op |-> "none", h |-> 0, to_alloc |-> 0, ret |-> NULL, how |-> ""]

\* the program has not run into undefined behaviour
Running == last.op # "undefined"

\* the threads that call allocate and deallocate without synchronization
ThreadIds == {1, 2}

\* a thread outside any call.  pc: the line the thread is at; to_alloc, addr,
\* previous_end: the locals of the call; held: history, the addresses the
\* calls of this thread returned and the thread did not deallocate since
Idle == [pc |-> "idle", to_alloc |-> 0, addr |-> NULL, previous_end |-> 0, held |-> {}]

\* th: the threads; pos: the file offset of each descriptor, which lseek and
\* write move; raced: history, some step of a call was taken while the other
\* thread was inside a call; calls: history, the number of calls begun
NoThreads ==
    [th |-> [t \in ThreadIds |-> Idle], pos |-> EmptyMap, raced |-> FALSE, calls |-> 0]

\* root: history, the sequence number of the open() call that made the object
NullDefault == [st |-> "null", fd_ |-> 0, sizes_ |-> 0, free_blocks_ |-> 0, root |-> 0]

Init ==
    /\ default_allocator = NullDefault
    /\ handles = EmptyMap
    /\ fds = EmptyMap
    /\ files = EmptyMap
    /\ mappings = EmptyMap
    /\ sizemaps = [i \in ObjIds |-> EmptyMap]
    /\ freemaps = [i \in ObjIds |-> EmptyMap]
    /\ use_count = [i \in ObjIds |-> 0]
    /\ live = [i \in ObjIds |-> {}]
    /\ recent = [i \in ObjIds |-> EmptyMap]
    /\ origin = EmptyMap
    /\ misuse = 0
    /\ last = NoCall
    /\ rq = [n |-> 0, T |-> 1, done |-> FALSE, out |-> 0]
    /\ threads = NoThreads

\* a mutation of Release: the maps are deleted whoever else owns them, as a
\* delete of raw pointers would
Release_DeletesAlways(id) ==
    /\ use_count' = [use_count EXCEPT ![id] = @ - 1]
    /\ sizemaps' = [sizemaps EXCEPT ![id] = EmptyMap]
    /\ freemaps' = [freemaps EXCEPT ![id] = EmptyMap]
    /\ live' = [live EXCEPT ![id] = {}]

\* ~shared_ptr: the use count drops, and the last owner deletes the maps
Release(id) ==
    /\ use_count' = [use_count EXCEPT ![id] = @ - 1]
    /\ IF use_count[id] = 1
       THEN /\ sizemaps' = [sizemaps EXCEPT ![id] = EmptyMap]
            /\ freemaps' = [freemaps EXCEPT ![id] = EmptyMap]
            /\ live' = [live EXCEPT ![id] = {}]
       ELSE UNCHANGED <<sizemaps, freemaps, live>>

\* SetDefault(filename), lines 135-137, with Allocator::New, lines 44-51.
\* The previous default object, if any, is neither deleted nor closed.
SetDefault(filename, open_ok) ==
    /\ Running
    /\ IF open_ok
       THEN /\ Cardinality(DOMAIN fds) < MaxOpens
            /\ \E i \in ObjIds : use_count[i] = 0
            /\ LET fd == LowestFreeFd
                   id == FreshObj
               IN  /\ fds' = Put(fds, fd, filename)
                   /\ files' = Put(files, filename, 0)
                   /\ sizemaps' = [sizemaps EXCEPT ![id] = EmptyMap]
                   /\ freemaps' = [freemaps EXCEPT ![id] = EmptyMap]
                   /\ use_count' = [use_count EXCEPT ![id] = 1]
                   /\ default_allocator' =
                          [st |-> "valid", fd_ |-> fd, sizes_ |-> id, free_blocks_ |-> id,
                           root |-> Cardinality(DOMAIN fds) + 1]
                   /\ last' = [NoCall EXCEPT !.op = "SetDefault", !.ret = fd]
       ELSE /\ default_allocator' = NullDefault
            /\ last' = [NoCall EXCEPT !.op = "SetDefault", !.how = "open_failed"]
            /\ UNCHANGED <<fds, files, sizemaps, freemaps, use_count>>
    /\ UNCHANGED <<handles, mappings, live, origin, misuse, rq, threads>>

\* FreeDefault(), lines 139-141: delete of the default object.  Allocator has
\* no destructor of its own: the two shared_ptr members are released, fd_ is
\* not closed.  delete of a null pointer does nothing; the pointer is left
\* dangling.
FreeDefault ==
    /\ Running
    /\ default_allocator.st # "freed"
    /\ IF default_allocator.st = "valid"
       THEN /\ Release(default_allocator.sizes_)
            /\ default_allocator' = [default_allocator EXCEPT !.st = "freed"]
       ELSE UNCHANGED <<default_allocator, use_count, sizemaps, freemaps, live>>
    /\ last' = [NoCall EXCEPT !.op = "FreeDefault"]
    /\ UNCHANGED <<handles, fds, files, mappings, origin, misuse, rq, threads>>

\* the handle id the next constructed Allocator object gets
NewHandleId == Min(HandleIds \ DOMAIN handles)

\* Allocator(), lines 53-57: copies the members of *default_allocator
DefaultConstruct(T) ==
    /\ Running
    /\ default_allocator.st = "valid"
    /\ HandleIds \ DOMAIN handles # {}
    /\ LET h == NewHandleId
       IN  /\ handles' = Put(handles, h, CopyHandle(default_allocator, T))
           /\ origin' = Put(origin, h, default_allocator.root)
           /\ use_count' = [use_count EXCEPT ![default_allocator.sizes_] = @ + 1]
           /\ last' = [NoCall EXCEPT !.op = "construct", !.h = h]
    /\ UNCHANGED <<default_allocator, fds, files, mappings, sizemaps, freemaps,
                   live, misuse, rq, threads>>

\* Allocator(const Allocator<U>& other), lines 59-63: copy or rebind
CopyConstruct(src, U) ==
    /\ Running
    /\ src \in DOMAIN handles
    /\ HandleIds \ DOMAIN handles # {}
    /\ LET h == NewHandleId
           new == CopyHandle(handles[src], U)
       IN  /\ handles' = Put(handles, h, new)
           /\ origin' = Put(origin, h, origin[src])
           /\ use_count' = [use_count EXCEPT ![new.sizes_] = @ + 1]
           /\ last' = [NoCall EXCEPT !.op = "copy", !.h = h]
    /\ UNCHANGED <<default_allocator, fds, files, mappings, sizemaps, freemaps,
                   live, misuse, rq, threads>>

\* ~Allocator() (implicit): releases the shared_ptr members
Destroy(h) ==
    /\ Running
    /\ h \in DOMAIN handles
    /\ handles' = [x \in (DOMAIN handles) \ {h} |-> handles[x]]
    /\ origin' = [x \in (DOMAIN origin) \ {h} |-> origin[x]]
    /\ Release(handles[h].sizes_)
    /\ last' = [NoCall EXCEPT !.op = "destroy", !.h = h]
    /\ UNCHANGED <<default_allocator, fds, files, mappings, misuse, rq, threads>>

\* Undefined behaviour: Allocator() while default_allocator is null or
\* dangling, or FreeDefault() twice.  Nothing is claimed about the program
\* afterwards.
Undefined ==
    /\ Running
    /\ default_allocator.st # "valid"
    /\ last' = [NoCall EXCEPT !.op = "undefined"]
    /\ UNCHANGED <<default_allocator, handles, fds, files, mappings, sizemaps,
                   freemaps, use_count, live, origin, misuse, rq, threads>>

\* History of a size class S: addr, the address the latest allocate of
\* rounded size S returned; st, whether it was deallocated since; clean,
\* whether that deallocate found size S in the registry and no other
\* deallocate has pushed onto bucket S after it; reps, how many allocates of
\* S in a row (up to 2) were made while st = "freed" and clean; by, the handle
\* that deallocate was made through (0 if there was none).
\* An allocate of S that returns NULL ends the history of S.
NoteReturned(rec, S, ret) ==
    LET again == S \in DOMAIN rec /\ rec[S].st = "freed" /\ rec[S].clean
        reps == IF again THEN (IF rec[S].reps < 2 THEN rec[S].reps + 1 ELSE 2) ELSE 0
        by == IF again THEN rec[S].by ELSE 0
    IN  IF ret = NULL
        THEN [x \in (DOMAIN rec) \ {S} |-> rec[x]]
        ELSE Put(rec, S, [addr |-> ret, st |-> "live", clean |-> TRUE, reps |-> reps,
                          by |-> by])

\* the history after deallocate(p) through handle h, which pushed p onto
\* bucket to_free; lv is the set of live addresses before the call
NoteFreed(rec, lv, p, to_free, h) ==
    [S \in DOMAIN rec |->
        IF rec[S].addr = p
        THEN IF rec[S].st = "live" /\ p \in lv
             THEN [rec[S] EXCEPT !.st = "freed", !.clean = (to_free = S), !.by = h]
             ELSE [rec[S] EXCEPT !.clean = FALSE]
        ELSE IF S = to_free THEN [rec[S] EXCEPT !.clean = FALSE] ELSE rec[S]]

\* T* allocate(size_t n), lines 65-92.  env is what the environment does to
\* the call: nothing, a failing write(), or a failing mmap().
Allocate(h, n, env) ==
    /\ Running
    /\ h \in DOMAIN handles
    /\ LET H == handles[h]
           to_alloc == ToAlloc(n, H.T)
           fm == Touch(freemaps[H.free_blocks_], to_alloc, <<>>)
           vec == fm[to_alloc]
           path == fds[H.fd_]
           previous_end == files[path]
           seek == LseekEnd(previous_end, to_alloc - 1)
           new_len == Max2(previous_end, seek + 1)
           write_ok == env # "write_fails"
           addr == Mmap(mappings, to_alloc, previous_end, env # "mmap_fails")
           call == [NoCall EXCEPT !.op = "allocate", !.h = h, !.to_alloc = to_alloc]
       IN  IF vec # <<>>
           THEN \* lines 73-77: reuse
                LET top == PopBlock(vec)
                IN  /\ freemaps' = [freemaps EXCEPT ![H.free_blocks_] =
                                        Put(fm, to_alloc, top.rest)]
                    /\ last' = [call EXCEPT !.ret = top.addr, !.how = "reused"]
                    /\ live' = [live EXCEPT ![H.sizes_] =
                                    IF top.addr = NULL THEN @ ELSE @ \cup {top.addr}]
                    /\ UNCHANGED <<files, mappings, sizemaps>>
           ELSE IF seek = -1
           THEN \* lines 81-83
                /\ freemaps' = [freemaps EXCEPT ![H.free_blocks_] = fm]
                /\ last' = [call EXCEPT !.ret = NULL, !.how = "seek_failed"]
                /\ UNCHANGED <<files, mappings, sizemaps, live>>
           ELSE IF ~write_ok
           THEN \* lines 85-87
                /\ freemaps' = [freemaps EXCEPT ![H.free_blocks_] = fm]
                /\ last' = [call EXCEPT !.ret = NULL, !.how = "write_failed"]
                /\ UNCHANGED <<files, mappings, sizemaps, live>>
           ELSE \* lines 85-91: one byte written at `seek`, then mmap, unchecked
                /\ new_len <= MaxFilePages * kPageSize
                /\ freemaps' = [freemaps EXCEPT ![H.free_blocks_] = fm]
                /\ files' = [files EXCEPT ![path] = new_len]
                /\ mappings' = IF addr = MAP_FAILED THEN mappings
                               ELSE Put(mappings, addr,
                                        [fd |-> H.fd_, off |-> previous_end, len |-> to_alloc])
                /\ sizemaps' = [sizemaps EXCEPT ![H.sizes_] = RecordSize(@, addr, to_alloc)]
                /\ last' = [call EXCEPT !.ret = addr,
                                        !.how = IF addr = MAP_FAILED THEN "map_failed"
                                                ELSE "grown"]
                /\ live' = [live EXCEPT ![H.sizes_] = @ \cup {addr}]
    /\ UNCHANGED <<default_allocator, handles, fds, use_count, origin, misuse, rq, threads>>

\* void deallocate(T* p, size_t n), lines 94-97.  n is not used.  Reading
\* the registry with operator[] inserts size 0 for an address it does not hold.
Deallocate(h, p) ==
    /\ Running
    /\ h \in DOMAIN handles
    /\ LET H == handles[h]
           sm == Touch(sizemaps[H.sizes_], p, 0)
           to_free == sm[p]
           fm == Touch(freemaps[H.free_blocks_], to_free, <<>>)
       IN  /\ sizemaps' = [sizemaps EXCEPT ![H.sizes_] = sm]
           /\ freemaps' = [freemaps EXCEPT ![H.free_blocks_] =
                               Put(fm, to_free, PushBlock(fm[to_free], p))]
           /\ live' = [live EXCEPT ![H.sizes_] = @ \ {p}]
           /\ misuse' = IF p \in live[H.sizes_] THEN misuse ELSE misuse + 1
           /\ last' = [NoCall EXCEPT !.op = "deallocate", !.h = h, !.ret = p,
                                     !.to_alloc = to_free,
                                     !.how = IF p \in DOMAIN sizemaps[H.sizes_]
                                             THEN "found" ELSE "inserted"]
    /\ UNCHANGED <<default_allocator, handles, fds, files, mappings, use_count,
                   origin, rq, threads>>

(* --------------------------- the environments ------------------------- *)

\* no Allocator<T> of this element type exists yet
NoHandleOf(T) == \A x \in DOMAIN handles : handles[x].T # T

\* p is an address that an allocate on h's arena returned and that was not
\* deallocated since
IsLive(h, p) == h \in DOMAIN handles /\ p \in live[handles[h].sizes_]

\* One arena under every input and every failure of the environment: one
\* successful SetDefault, one Allocator<T> per element type on it (default
\* constructed or rebound from the other), allocate with every count and
\* every answer of write() and mmap(), deallocate of any live address.
Next ==
    \/ \E f \in Paths, ok \in BOOLEAN :
          fds = EmptyMap /\ SetDefault(f, ok) /\ UNCHANGED recent
    \/ \E T \in ElemSizes :
          NoHandleOf(T) /\ DefaultConstruct(T) /\ UNCHANGED recent
    \/ \E h \in HandleIds, U \in ElemSizes :
          NoHandleOf(U) /\ CopyConstruct(h, U) /\ UNCHANGED recent
    \/ \E h \in HandleIds, n \in Counts, env \in Envs :
          Allocate(h, n, env) /\ UNCHANGED recent
    \/ \E h \in HandleIds, p \in Ptrs :
          IsLive(h, p) /\ Deallocate(h, p) /\ UNCHANGED recent

Spec == Init /\ [][Next]_vars

\* One arena and one handle under the same inputs, with the history of the
\* latest address returned for each size class kept in `recent`.
NextReuse ==
    \/ \E f \in Paths, ok \in BOOLEAN :
          fds = EmptyMap /\ SetDefault(f, ok) /\ UNCHANGED recent
    \/ \E T \in ElemSizes :
          handles = EmptyMap /\ DefaultConstruct(T) /\ UNCHANGED recent
    \/ \E h \in HandleIds, n \in Counts, env \in Envs :
          /\ Allocate(h, n, env)
          /\ recent' = [recent EXCEPT ![handles[h].sizes_] =
                            NoteReturned(@, last'.to_alloc, last'.ret)]
    \/ \E h \in HandleIds, p \in Ptrs :
          /\ IsLive(h, p)
          /\ Deallocate(h, p)
          /\ recent' = [recent EXCEPT ![handles[h].sizes_] =
                            NoteFreed(@, live[handles[h].sizes_], p, last'.to_alloc, h)]

SpecReuse == Init /\ [][NextReuse]_vars

\* the history of maps that were deleted in this step ends
Forget(id) ==
    recent' = IF id \in ObjIds /\ use_count[id] > 0 /\ use_count'[id] = 0
              THEN [recent EXCEPT ![id] = EmptyMap]
              ELSE recent

\* The life cycle of the default allocator and of the handles: up to MaxOpens
\* arenas and MaxHandles handles, created and destroyed in any order, with
\* allocate and deallocate used as their contract asks and an environment
\* that does not fail.
NextLife ==
    \/ \E f \in Paths, ok \in BOOLEAN : SetDefault(f, ok) /\ UNCHANGED recent
    \/ FreeDefault /\ Forget(default_allocator.sizes_)
    \/ \E T \in ElemSizes : DefaultConstruct(T) /\ UNCHANGED recent
    \/ \E h \in HandleIds, U \in ElemSizes : CopyConstruct(h, U) /\ UNCHANGED recent
    \/ \E h \in HandleIds : Destroy(h) /\ Forget(handles[h].sizes_)
    \/ \E h \in HandleIds, n \in LifeCounts :
          /\ Allocate(h, n, "ok")
          /\ recent' = [recent EXCEPT ![handles[h].sizes_] =
                            NoteReturned(@, last'.to_alloc, last'.ret)]
    \/ \E h \in HandleIds, p \in Addrs :
          /\ IsLive(h, p)
          /\ Deallocate(h, p)
          /\ recent' = [recent EXCEPT ![handles[h].sizes_] =
                            NoteFreed(@, live[handles[h].sizes_], p, last'.to_alloc, h)]
    \/ Undefined /\ UNCHANGED recent

SpecLife == Init /\ [][NextLife]_vars

\* The default allocator and the handles alone: SetDefault, FreeDefault,
\* default construction, copy, rebind and destruction in any order.
NextHandles ==
    \/ \E f \in Paths, ok \in BOOLEAN : SetDefault(f, ok) /\ UNCHANGED recent
    \/ FreeDefault /\ UNCHANGED recent
    \/ \E T \in ElemSizes : DefaultConstruct(T) /\ UNCHANGED recent
    \/ \E h \in HandleIds, U \in ElemSizes : CopyConstruct(h, U) /\ UNCHANGED recent
    \/ \E h \in HandleIds : Destroy(h) /\ UNCHANGED recent
    \/ Undefined /\ UNCHANGED recent

SpecHandles == Init /\ [][NextHandles]_vars

\* One arena and one handle, with deallocate also given pointers that are not
\* live: a block freed twice, an address of no block, NULL (at most MaxMisuse
\* such calls).
NextMisuse ==
    \/ \E f \in Paths, ok \in BOOLEAN :
          fds = EmptyMap /\ SetDefault(f, ok) /\ UNCHANGED recent
    \/ \E T \in ElemSizes :
          handles = EmptyMap /\ DefaultConstruct(T) /\ UNCHANGED recent
    \/ \E h \in HandleIds, n \in Counts, env \in Envs :
          Allocate(h, n, env) /\ UNCHANGED recent
    \/ \E h \in HandleIds, p \in Ptrs :
          /\ IsLive(h, p) \/ misuse < MaxMisuse
          /\ Deallocate(h, p)
          /\ UNCHANGED recent

SpecMisuse == Init /\ [][NextMisuse]_vars

\* History of the deallocations of a size class S: freed, the addresses
\* deallocated into S and not returned since, in the order of their
\* deallocation; was, the value of freed after the latest deallocate into S;
\* given, the addresses returned since that deallocate by the allocates of S
\* that were made while freed was not empty.
NoOrder == [freed |-> <<>>, was |-> <<>>, given |-> <<>>]

\* the sequence s without its last occurrence of x
RECURSIVE WithoutLast(_, _)
WithoutLast(s, x) ==
    IF s = <<>> THEN <<>>
    ELSE IF s[Len(s)] = x THEN SubSeq(s, 1, Len(s) - 1)
    ELSE Append(WithoutLast(SubSeq(s, 1, Len(s) - 1), x), s[Len(s)])

\* the history after deallocate(p), which found or inserted size S for p
OrderFreed(ord, S, p) ==
    LET o == Touch(ord, S, NoOrder)[S]
    IN  Put(ord, S, [freed |-> Append(o.freed, p),
                     was |-> Append(o.freed, p),
                     given |-> <<>>])

\* the history after an allocate of rounded size S that returned ret
OrderReturned(ord, S, ret) ==
    LET o == Touch(ord, S, NoOrder)[S]
    IN  IF ret = NULL THEN ord
        ELSE Put(ord, S, [o EXCEPT !.freed = WithoutLast(o.freed, ret),
                                   !.given = IF o.freed = <<>> THEN o.given
                                             ELSE Append(o.given, ret)])

\* One arena and one handle under every input and every failure of the
\* environment, with the order of the deallocations of each size class kept
\* in `recent`.
NextOrder ==
    \/ \E f \in Paths, ok \in BOOLEAN :
          fds = EmptyMap /\ SetDefault(f, ok) /\ UNCHANGED recent
    \/ \E T \in ElemSizes :
          handles = EmptyMap /\ DefaultConstruct(T) /\ UNCHANGED recent
    \/ \E h \in HandleIds, n \in Counts, env \in Envs :
          /\ Allocate(h, n, env)
          /\ recent' = [recent EXCEPT ![handles[h].sizes_] =
                            OrderReturned(@, last'.to_alloc, last'.ret)]
    \/ \E h \in HandleIds, p \in Ptrs :
          /\ IsLive(h, p)
          /\ Deallocate(h, p)
          /\ recent' = [recent EXCEPT ![handles[h].sizes_] =
                            OrderFreed(@, last'.to_alloc, p)]

SpecOrder == Init /\ [][NextOrder]_vars

(* ------------- allocate and deallocate, statement by statement --------- *)

\* Thread t calls through handle t.  Each action is one statement of
\* allocate or deallocate; the statements of two threads interleave freely,
\* as nothing in the code orders them.  The environment does not fail.

\* thread t is at statement pc of a call
At(t, pc) == Running /\ t \in DOMAIN handles /\ threads.th[t].pc = pc

\* thread t moves on with the locals in `new`; pos is the new offset table
Goes(t, new, pos) ==
    threads' = [th |-> [threads.th EXCEPT ![t] = new],
                pos |-> pos,
                calls |-> IF threads.th[t].pc = "idle" THEN threads.calls + 1
                          ELSE threads.calls,
                raced |-> threads.raced \/
                          \E u \in ThreadIds \ {t} : threads.th[u].pc # "idle"]

\* what a statement leaves alone besides the maps, the files and the mappings
ThreadFrame ==
    UNCHANGED <<default_allocator, handles, fds, use_count, origin, misuse, rq, recent>>

\* back() or pop_back() on an empty vector: undefined behaviour
EmptyVectorUse ==
    /\ last' = [NoCall EXCEPT !.op = "undefined"]
    /\ UNCHANGED <<files, mappings, sizemaps, freemaps, live, threads>>

\* allocate, lines 67-73: the rounding, the bucket lookup and the test
AllocLookup(t, n) ==
    /\ At(t, "idle")
    /\ threads.calls < MaxCalls
    /\ LET H == handles[t]
           to_alloc == ToAlloc(n, H.T)
           fm == Touch(freemaps[H.free_blocks_], to_alloc, <<>>)
       IN  /\ freemaps' = [freemaps EXCEPT ![H.free_blocks_] = fm]
           /\ Goes(t, [threads.th[t] EXCEPT !.to_alloc = to_alloc,
                           !.pc = IF fm[to_alloc] # <<>> THEN "back" ELSE "seek_end"],
                   threads.pos)
    /\ UNCHANGED <<files, mappings, sizemaps, live, last>>
    /\ ThreadFrame

\* allocate, line 74: addr = vec.back()
AllocBack(t) ==
    /\ At(t, "back")
    /\ LET me == threads.th[t]
           vec == freemaps[handles[t].free_blocks_][me.to_alloc]
       IN  IF vec = <<>>
           THEN EmptyVectorUse
           ELSE /\ Goes(t, [me EXCEPT !.addr = PopBlock(vec).addr, !.pc = "pop"],
                        threads.pos)
                /\ UNCHANGED <<files, mappings, sizemaps, freemaps, live, last>>
    /\ ThreadFrame

\* allocate, lines 75-76: vec.pop_back(); return addr
AllocPop(t) ==
    /\ At(t, "pop")
    /\ LET me == threads.th[t]
           H == handles[t]
           vec == freemaps[H.free_blocks_][me.to_alloc]
       IN  IF vec = <<>>
           THEN EmptyVectorUse
           ELSE /\ freemaps' = [freemaps EXCEPT ![H.free_blocks_][me.to_alloc] =
                                    PopBlock(vec).rest]
                /\ Goes(t, [Idle EXCEPT !.held = me.held \cup {me.addr}], threads.pos)
                /\ last' = [NoCall EXCEPT !.op = "allocate", !.h = t,
                                          !.to_alloc = me.to_alloc,
                                          !.ret = me.addr, !.how = "reused"]
                /\ live' = [live EXCEPT ![H.sizes_] = @ \cup {me.addr}]
                /\ UNCHANGED <<files, mappings, sizemaps>>
    /\ ThreadFrame

\* allocate, line 79: previous_end = lseek(fd_, 0, SEEK_END)
AllocSeekEnd(t) ==
    /\ At(t, "seek_end")
    /\ LET H == handles[t]
           end == LseekEnd(files[fds[H.fd_]], 0)
       IN  Goes(t, [threads.th[t] EXCEPT !.previous_end = end, !.pc = "seek"],
                Put(threads.pos, H.fd_, end))
    /\ UNCHANGED <<files, mappings, sizemaps, freemaps, live, last>>
    /\ ThreadFrame

\* allocate, lines 81-83: lseek(fd_, to_alloc - 1, SEEK_END)
AllocSeek(t) ==
    /\ At(t, "seek")
    /\ LET me == threads.th[t]
           H == handles[t]
           seek == LseekEnd(files[fds[H.fd_]], me.to_alloc - 1)
       IN  IF seek = -1
           THEN /\ Goes(t, [Idle EXCEPT !.held = me.held], threads.pos)
                /\ last' = [NoCall EXCEPT !.op = "allocate", !.h = t,
                                          !.to_alloc = me.to_alloc,
                                          !.ret = NULL, !.how = "seek_failed"]
           ELSE /\ Goes(t, [me EXCEPT !.pc = "write"], Put(threads.pos, H.fd_, seek))
                /\ UNCHANGED last
    /\ UNCHANGED <<files, mappings, sizemaps, freemaps, live>>
    /\ ThreadFrame

\* allocate, line 85: write(fd_, "", 1), at the offset of the descriptor
AllocWrite(t) ==
    /\ At(t, "write")
    /\ LET H == handles[t]
           path == fds[H.fd_]
           at == threads.pos[H.fd_]
           new_len == Max2(files[path], at + 1)
       IN  /\ new_len <= MaxFilePages * kPageSize
           /\ files' = [files EXCEPT ![path] = new_len]
           /\ Goes(t, [threads.th[t] EXCEPT !.pc = "mmap"],
                   Put(threads.pos, H.fd_, at + 1))
    /\ UNCHANGED <<mappings, sizemaps, freemaps, live, last>>
    /\ ThreadFrame

\* allocate, lines 88-89: mmap of to_alloc bytes at previous_end
AllocMmap(t) ==
    /\ At(t, "mmap")
    /\ LET me == threads.th[t]
           addr == Mmap(mappings, me.to_alloc, me.previous_end, TRUE)
       IN  /\ mappings' = IF addr = MAP_FAILED THEN mappings
                          ELSE Put(mappings, addr,
                                   [fd |-> handles[t].fd_, off |-> me.previous_end,
                                    len |-> me.to_alloc])
           /\ Goes(t, [me EXCEPT !.addr = addr, !.pc = "record"], threads.pos)
    /\ UNCHANGED <<files, sizemaps, freemaps, live, last>>
    /\ ThreadFrame

\* allocate, lines 90-91: the registry entry of addr is set; return addr
AllocRecord(t) ==
    /\ At(t, "record")
    /\ LET me == threads.th[t]
           H == handles[t]
       IN  /\ sizemaps' = [sizemaps EXCEPT ![H.sizes_] = RecordSize(@, me.addr, me.to_alloc)]
           /\ Goes(t, [Idle EXCEPT !.held = me.held \cup {me.addr}], threads.pos)
           /\ last' = [NoCall EXCEPT !.op = "allocate", !.h = t,
                                     !.to_alloc = me.to_alloc, !.ret = me.addr,
                                     !.how = IF me.addr = MAP_FAILED THEN "map_failed"
                                             ELSE "grown"]
           /\ live' = [live EXCEPT ![H.sizes_] = @ \cup {me.addr}]
    /\ UNCHANGED <<files, mappings, freemaps>>
    /\ ThreadFrame

\* deallocate, line 95: to_free is read from the registry
DeallocLookup(t, p) ==
    /\ At(t, "idle")
    /\ threads.calls < MaxCalls
    /\ p \in threads.th[t].held
    /\ LET H == handles[t]
           sm == Touch(sizemaps[H.sizes_], p, 0)
       IN  /\ sizemaps' = [sizemaps EXCEPT ![H.sizes_] = sm]
           /\ Goes(t, [threads.th[t] EXCEPT !.to_alloc = sm[p], !.addr = p, !.pc = "push"],
                   threads.pos)
    /\ UNCHANGED <<files, mappings, freemaps, live, last>>
    /\ ThreadFrame

\* deallocate, line 96: push_back onto the bucket of to_free
DeallocPush(t) ==
    /\ At(t, "push")
    /\ LET me == threads.th[t]
           H == handles[t]
           fm == Touch(freemaps[H.free_blocks_], me.to_alloc, <<>>)
       IN  /\ freemaps' = [freemaps EXCEPT ![H.free_blocks_] =
                               Put(fm, me.to_alloc, PushBlock(fm[me.to_alloc], me.addr))]
           /\ Goes(t, [Idle EXCEPT !.held = me.held \ {me.addr}], threads.pos)
           /\ last' = [NoCall EXCEPT !.op = "deallocate", !.h = t, !.ret = me.addr,
                                     !.to_alloc = me.to_alloc, !.how = "found"]
           /\ live' = [live EXCEPT ![H.sizes_] = @ \ {me.addr}]
    /\ UNCHANGED <<files, mappings, sizemaps>>
    /\ ThreadFrame

\* One arena, one handle per thread, and the statements of the two threads'
\* calls in any order.
NextThreads ==
    \/ \E f \in Paths, ok \in BOOLEAN :
          fds = EmptyMap /\ SetDefault(f, ok) /\ UNCHANGED recent
    \/ \E T \in ElemSizes :
          NoHandleOf(T) /\ DefaultConstruct(T) /\ UNCHANGED recent
    \/ \E h \in HandleIds, U \in ElemSizes :
          NoHandleOf(U) /\ CopyConstruct(h, U) /\ UNCHANGED recent
    \/ \E t \in ThreadIds, n \in LifeCounts : AllocLookup(t, n)
    \/ \E t \in ThreadIds : AllocBack(t)
    \/ \E t \in ThreadIds : AllocPop(t)
    \/ \E t \in ThreadIds : AllocSeekEnd(t)
    \/ \E t \in ThreadIds : AllocSeek(t)
    \/ \E t \in ThreadIds : AllocWrite(t)
    \/ \E t \in ThreadIds : AllocMmap(t)
    \/ \E t \in ThreadIds : AllocRecord(t)
    \/ \E t \in ThreadIds, p \in Addrs : DeallocLookup(t, p)
    \/ \E t \in ThreadIds : DeallocPush(t)

SpecThreads == Init /\ [][NextThreads]_vars

(* ---------------------- the page-rounding specification ---------------- *)

\* the rounding of allocate applied to one request
Round ==
    /\ ~rq.done
    /\ rq' = [rq EXCEPT !.done = TRUE, !.out = ToAlloc(rq.n, rq.T)]
    /\ UNCHANGED <<default_allocator, handles, fds, files, mappings, sizemaps,
                   freemaps, use_count, live, recent, origin, misuse, last,
                   threads>>

InitRound ==
    /\ default_allocator = NullDefault
    /\ handles = EmptyMap
    /\ fds = EmptyMap
    /\ files = EmptyMap
    /\ mappings = EmptyMap
    /\ sizemaps = [i \in ObjIds |-> EmptyMap]
    /\ freemaps = [i \in ObjIds |-> EmptyMap]
    /\ use_count = [i \in ObjIds |-> 0]
    /\ live = [i \in ObjIds |-> {}]
    /\ recent = [i \in ObjIds |-> EmptyMap]
    /\ origin = EmptyMap
    /\ misuse = 0
    /\ last = NoCall
    /\ rq \in [n : 0..MaxCount, T : RoundElemSizes, done : {FALSE}, out : {0}]
    /\ threads = NoThreads

NextRound == Round

SpecRound == InitRound /\ [][NextRound]_vars

(* ------------------------------- claims -------------------------------- *)

\* the SizeMap / FreeMap pair the latest call worked on (after the call)
LastArena == handles'[last'.h].sizes_

\* C1 as claimed (identity on reuse): when block address A was the latest
\* address returned for rounded size S and A has been deallocated since, with
\* no other allocate of rounded size S in between, the next allocate of
\* rounded size S returns A.  Stated for the runs in which no mmap has failed,
\* so that only addresses of mapped blocks are involved.
C1_AsClaimed ==
    [][last'.op = "allocate" =>
         LET rec == recent[LastArena]
             S == last'.to_alloc
         IN  (/\ S \in DOMAIN rec /\ rec[S].st = "freed" /\ rec[S].addr \in Addrs
              /\ MAP_FAILED \notin DOMAIN sizemaps[LastArena])
                 => last'.ret = rec[S].addr]_vars

\* C1 as amended: when address A was the latest one returned for rounded size
\* S, A was then deallocated while the registry recorded size S for it, and
\* since that deallocate there was no allocate of rounded size S and no other
\* deallocate of an address recorded with size S, the next allocate of rounded
\* size S returns A; and so again on every repetition.
C1_Amended ==
    [][last'.op = "allocate" =>
         LET rec == recent[LastArena]
             S == last'.to_alloc
         IN  (S \in DOMAIN rec /\ rec[S].st = "freed" /\ rec[S].clean)
                 => last'.ret = rec[S].addr]_vars

\* C1 witness: a block address was returned, deallocated and returned again
\* twice in a row for its size class.
C1_Witness ==
    /\ last.op = "allocate" /\ last.how = "reused" /\ last.ret \in Addrs
    /\ \E id \in ObjIds :
          /\ last.to_alloc \in DOMAIN recent[id]
          /\ recent[id][last.to_alloc].reps = 2
          /\ recent[id][last.to_alloc].addr = last.ret

\* two mapped blocks take disjoint ranges of one file, or lie in different files
Disjoint(a, b) ==
    \/ fds[mappings[a].fd] # fds[mappings[b].fd]
    \/ mappings[a].off + mappings[a].len <= mappings[b].off
    \/ mappings[b].off + mappings[b].len <= mappings[a].off

\* C2 as claimed: when every deallocate is given a live address, allocate
\* never returns an address that is live at that moment (returned earlier and
\* not deallocated since), and any two distinct live blocks occupy disjoint
\* file-offset ranges.
C2_AsClaimed ==
    [][/\ (last'.op = "allocate" /\ last'.ret # NULL)
              => last'.ret \notin live[LastArena]
       /\ \A id \in ObjIds :
              \A a, b \in (live'[id] \cap DOMAIN mappings') :
                  a # b => Disjoint(a, b)']_vars

\* the request in bytes of the page-rounding specification
Requested == rq.n * rq.T

\* C3 (page rounding): the size allocate uses for n elements of size T is the
\* smallest multiple of the page size that is >= n * T; a request that is a
\* page multiple already is left unchanged.
C3_PageRounding ==
    rq.done =>
        /\ rq.out % kPageSize = 0
        /\ rq.out >= Requested
        /\ rq.out - Requested < kPageSize
        /\ (Requested % kPageSize = 0 => rq.out = Requested)

\* C3 witness: a request of more than one page that is no page multiple has
\* been rounded up to two pages.
C3_Witness ==
    /\ rq.done
    /\ Requested > kPageSize
    /\ Requested % kPageSize # 0
    /\ rq.out = 2 * kPageSize

\* C4 (registry completeness, I1): every address an allocate returned and
\* that was not deallocated since has an entry in the Size Registry of its
\* arena, and a deallocate of such an address finds that entry.
C4_RegistryComplete ==
    /\ \A id \in ObjIds : live[id] \subseteq DOMAIN sizemaps[id]
    /\ last.op = "deallocate" => last.how = "found"

\* C4 witness: a live block has just been deallocated through its recorded
\* size while another block of the arena is still live.
C4_Witness ==
    /\ last.op = "deallocate" /\ last.how = "found" /\ last.ret \in Addrs
    /\ \E id \in ObjIds : live[id] \cap Addrs # {} /\ last.ret \in DOMAIN sizemaps[id]

\* the number of times address a occurs in the buckets of free list fm
Occurrences(fm, a) ==
    Cardinality({<<S, i>> \in (DOMAIN fm) \X (1..(2 * MaxFilePages + 2)) :
                    i <= Len(fm[S]) /\ fm[S][i] = a})

\* C5 as claimed (I2), for runs in which every deallocate is given a live
\* address: an address appears in at most one Free List bucket, at most once,
\* and only while it is not live.
C5_AsClaimed ==
    \A id \in ObjIds : \A a \in Ptrs :
        /\ Occurrences(freemaps[id], a) <= 1
        /\ Occurrences(freemaps[id], a) = 1 => a \notin live[id]

\* C6 as claimed (I3): every size recorded in the Size Registry and every size
\* class that holds an address in the Free List is a positive multiple of the
\* page size.
C6_AsClaimed ==
    \A id \in ObjIds :
        /\ \A a \in DOMAIN sizemaps[id] :
               sizemaps[id][a] > 0 /\ sizemaps[id][a] % kPageSize = 0
        /\ \A S \in DOMAIN freemaps[id] :
               freemaps[id][S] # <<>> => (S > 0 /\ S % kPageSize = 0)

\* the ways a growing allocate can fail
GrowthFailures == {"seek_failed", "write_failed", "map_failed"}

\* C9 as claimed: when the seek, the write or the mapping step of growth
\* fails, allocate returns the failure result, NULL.
C9_AsClaimed ==
    (last.op = "allocate" /\ last.how \in GrowthFailures) => last.ret = NULL

\* the buckets of free list fm that hold an address
Contents(fm) == [S \in {x \in DOMAIN fm : fm[x] # <<>>} |-> fm[S]]

\* C10 as claimed (all-or-nothing): an allocate whose growth fails leaves the
\* length of the backing file, the Size Registry and the contents of the Free
\* List as they were.
C10_AsClaimed ==
    [][(last'.op = "allocate" /\ last'.how \in GrowthFailures) =>
          /\ files' = files
          /\ sizemaps' = sizemaps
          /\ \A id \in ObjIds : Contents(freemaps'[id]) = Contents(freemaps[id])]_vars

\* handles a and b hold the same Size Registry and the same Free List
SameMaps(a, b) == a.sizes_ = b.sizes_ /\ a.free_blocks_ = b.free_blocks_

\* any two handles that derive from one root compare equal and hold the same
\* maps
SameRootShares ==
    \A a, b \in DOMAIN handles :
        origin[a] = origin[b] =>
            HandleEq(handles[a], handles[b]) /\ SameMaps(handles[a], handles[b])

C11_AsClaimed ==
    [][(last'.op = "deallocate" /\ last'.how = "inserted") =>
          /\ sizemaps' = sizemaps
          /\ \A id \in ObjIds : Contents(freemaps'[id]) = Contents(freemaps[id])]_vars

\* the arena of the handle of the latest call
ArenaOfLast == handles[last.h].sizes_

\* C12 (no growth on reuse): an allocate served from the Free List leaves the
\* length of every file, the Size Registry and the mappings unchanged; among
\* the descriptors, handles and maps its only change is that the returned
\* address is taken off the end of the bucket of its size class.
C12_NoGrowthOnReuse ==
    [][(last'.op = "allocate" /\ last'.how = "reused") =>
          LET S == last'.to_alloc
              fb == handles[last'.h].free_blocks_
          IN  /\ files' = files
              /\ sizemaps' = sizemaps
              /\ mappings' = mappings
              /\ fds' = fds /\ handles' = handles
              /\ default_allocator' = default_allocator
              /\ S \in DOMAIN freemaps[fb]
              /\ freemaps[fb][S] = Append(freemaps'[fb][S], last'.ret)
              /\ freemaps' = [freemaps EXCEPT ![fb][S] = freemaps'[fb][S]]]_vars

\* C12 witness: an allocate has just been served from a bucket that still
\* holds another block, on a file that earlier allocates have grown.
C12_Witness ==
    /\ last.op = "allocate" /\ last.how = "reused" /\ last.ret \in Addrs
    /\ freemaps[ArenaOfLast][last.to_alloc] # <<>>
    /\ files[fds[handles[last.h].fd_]] = MaxFilePages * kPageSize

\* C13 as claimed: a FreeDefault that follows a successful SetDefault closes
\* the descriptor that SetDefault opened, and the backing file still exists.
C13_AsClaimed ==
    [][(last'.op = "FreeDefault" /\ default_allocator.st = "valid") =>
          /\ default_allocator.fd_ \notin DOMAIN fds'
          /\ fds[default_allocator.fd_] \in DOMAIN files']_vars

\* the history of size class S in the arena of the call being made
OrderOfCall == Touch(recent[LastArena], last'.to_alloc, NoOrder)[last'.to_alloc]

\* C14 (LIFO within a size class): an allocate of rounded size S returns the
\* address deallocated latest among those deallocated into S and not returned
\* since, so successive allocates return them in the reverse order of their
\* deallocation; when there is none, the allocate takes the growth path.
C14_LifoOrder ==
    [][last'.op = "allocate" =>
          IF OrderOfCall.freed # <<>>
          THEN /\ last'.how = "reused"
               /\ last'.ret = OrderOfCall.freed[Len(OrderOfCall.freed)]
          ELSE last'.how \in {"grown"} \cup GrowthFailures]_vars

\* C14 witness: two blocks of one size were deallocated, and the two
\* allocates of that size that followed returned them in the reverse order.
C14_Witness ==
    /\ last.op = "allocate" /\ last.how = "reused"
    /\ last.to_alloc \in DOMAIN recent[ArenaOfLast]
    /\ LET o == recent[ArenaOfLast][last.to_alloc]
       IN  /\ Len(o.was) = 2 /\ o.was[1] # o.was[2]
           /\ o.was[1] \in Addrs /\ o.was[2] \in Addrs
           /\ o.given = <<o.was[2], o.was[1]>>
           /\ o.freed = <<>>

\* C15 as claimed: whenever allocate returns an address taken from the Free
\* List for a request of rounded size R, the Size Registry maps that address
\* to exactly R, also after growth attempts that failed.
C15_AsClaimed ==
    (last.op = "allocate" /\ last.how = "reused") =>
        /\ last.ret \in DOMAIN sizemaps[ArenaOfLast]
        /\ sizemaps[ArenaOfLast][last.ret] = last.to_alloc

\* C16 (growth placement): an allocate of rounded size R that misses the Free
\* List and whose seek, write and mmap all succeed makes the file longer by
\* exactly R bytes and maps the returned block, a new one, at the offset that
\* was the length of the file before the call, for exactly R bytes.
C16_GrowthPlacement ==
    [][(last'.op = "allocate" /\ last'.how = "grown") =>
          LET H == handles[last'.h]
              path == fds[H.fd_]
              R == last'.to_alloc
          IN  /\ R > 0
              /\ files'[path] = files[path] + R
              /\ last'.ret \notin DOMAIN mappings
              /\ last'.ret \in DOMAIN mappings'
              /\ mappings'[last'.ret] = [fd |-> H.fd_, off |-> files[path], len |-> R]]_vars

\* C16 witness: a block has just been mapped by growth behind an earlier one,
\* at an offset that is not the start of the file.
C16_Witness ==
    /\ last.op = "allocate" /\ last.how = "grown"
    /\ last.ret \in DOMAIN mappings
    /\ mappings[last.ret].off = kPageSize
    /\ mappings[last.ret].len = kPageSize
    /\ files[fds[handles[last.h].fd_]] = 2 * kPageSize

\* the frame of deallocate: a deallocate of an address the Size Registry
\* records leaves the length of every file, every mapping and every registry
\* entry unchanged; its only effect is that the address is appended to the
\* Free List bucket of its recorded size
DeallocateFrame ==
    (last'.op = "deallocate" /\ last'.how = "found") =>
        LET H == handles[last'.h]
            p == last'.ret
            S == sizemaps[H.sizes_][p]
            old == IF S \in DOMAIN freemaps[H.free_blocks_]
                   THEN freemaps[H.free_blocks_][S] ELSE <<>>
        IN  /\ files' = files
            /\ mappings' = mappings
            /\ sizemaps' = sizemaps
            /\ fds' = fds /\ handles' = handles
            /\ default_allocator' = default_allocator
            /\ freemaps'[H.free_blocks_][S] = Append(old, p)
            /\ \A id \in ObjIds : \A x \in DOMAIN freemaps[id] :
                   (id # H.free_blocks_ \/ x # S) =>
                       /\ x \in DOMAIN freemaps'[id]
                       /\ freemaps'[id][x] = freemaps[id][x]
            /\ \A id \in ObjIds :
                   Contents(freemaps'[id]) =
                       IF id = H.free_blocks_
                       THEN Put(Contents(freemaps[id]), S, Append(old, p))
                       ELSE Contents(freemaps[id])

\* no file gets shorter in this step
NoFileShrinks ==
    \A path \in DOMAIN files : path \in DOMAIN files' /\ files'[path] >= files[path]

\* C17 as claimed: deallocate of a recorded address has the frame above, and
\* the file length never decreases over any sequence of operations (a
\* SetDefault made while a default allocator is still set, which the
\* specification calls undefined, is left aside).
C17_AsClaimed ==
    [][/\ DeallocateFrame
       /\ (last'.op = "SetDefault" /\ default_allocator.st = "valid") \/ NoFileShrinks]_vars

\* C17 amended: deallocate of a recorded address has the frame above, and the
\* file length never decreases over any sequence of operations other than a
\* SetDefault that opens the file again, which truncates it.
C17_Amended ==
    [][/\ DeallocateFrame
       /\ (last'.op = "SetDefault" /\ last'.how # "open_failed") \/ NoFileShrinks]_vars

\* C17 witness: a mapped block has just been deallocated onto a bucket that
\* held another block, with the file two pages long and both mappings in
\* place.
C17_Witness ==
    /\ last.op = "deallocate" /\ last.how = "found" /\ last.ret \in Addrs
    /\ Len(freemaps[ArenaOfLast][last.to_alloc]) = 2
    /\ freemaps[ArenaOfLast][last.to_alloc][2] = last.ret
    /\ Addrs \subseteq DOMAIN mappings
    /\ sizemaps[ArenaOfLast][last.ret] = kPageSize
    /\ files[fds[handles[last.h].fd_]] = 2 * kPageSize

\* the addresses of mapped blocks that thread t holds
HeldBlocks(t) == threads.th[t].held \cap DOMAIN mappings

\* no thread is inside a call
Quiet == \A t \in ThreadIds : threads.th[t].pc = "idle"

\* one address is held by the callers on both threads
SameAddressTwice == HeldBlocks(1) \cap HeldBlocks(2) # {}

\* two blocks that are held overlap in their file
SameRangeTwice ==
    \E a, b \in HeldBlocks(1) \cup HeldBlocks(2) : a # b /\ ~Disjoint(a, b)

\* a mapped block that no caller holds is in no Free List bucket
FreedLost ==
    /\ Quiet
    /\ \E a \in (DOMAIN mappings) \ (HeldBlocks(1) \cup HeldBlocks(2)) :
          \A id \in ObjIds : Occurrences(freemaps[id], a) = 0

\* the corrupted states of claim C18
Corrupted == SameAddressTwice \/ SameRangeTwice \/ FreedLost

\* C18 (no synchronization): calls of allocate and deallocate that overlap in
\* time on two threads sharing one arena can corrupt it, and calls that do not
\* overlap cannot: up to undefined behaviour, a state in which one address or
\* one file range is held twice, or a freed block is lost from the Free List,
\* is reached only by runs in which two calls overlapped.
C18_CorruptOnlyByRace ==
    (Running /\ Corrupted) => threads.raced

\* C18 witness: after calls that overlapped, both threads are outside any
\* call, both callers hold the same address, and another block that was
\* deallocated is lost from the Free List.
C18_Witness ==
    /\ Running /\ Quiet /\ threads.raced
    /\ SameAddressTwice
    /\ FreedLost

\* every handle owns its maps and its descriptor is open on an existing file
HandlesValid ==
    \A h \in DOMAIN handles :
        /\ use_count[handles[h].sizes_] >= 1
        /\ handles[h].fd_ \in DOMAIN fds
        /\ fds[handles[h].fd_] \in DOMAIN files

\* C19 (shared ownership): as long as no call was undefined, the maps and the
\* descriptor of every handle stay valid, and FreeDefault leaves the registry,
\* the free list, the descriptor, the file and the mappings of every existing
\* handle as they were, so the handle goes on allocating and deallocating
\* against them.
C19_SharedOwnership ==
    [][/\ HandlesValid'
       /\ last'.op = "FreeDefault" =>
              /\ handles' = handles /\ fds' = fds
              /\ files' = files /\ mappings' = mappings
              /\ \A h \in DOMAIN handles :
                     /\ sizemaps'[handles[h].sizes_] = sizemaps[handles[h].sizes_]
                     /\ freemaps'[handles[h].free_blocks_] =
                            freemaps[handles[h].free_blocks_]]_vars

\* C19 witness: with the default allocator freed, a handle made from it,
\* the only owner left of its maps, has just grown the file by a second block
\* while the registry still holds its first, live block.
C19_Witness ==
    /\ default_allocator.st = "freed"
    /\ last.op = "allocate" /\ last.how = "grown" /\ last.ret \in Addrs
    /\ use_count[ArenaOfLast] = 1
    /\ default_allocator.sizes_ = ArenaOfLast
    /\ mappings[last.ret].off = kPageSize
    /\ \E a \in DOMAIN sizemaps[ArenaOfLast] :
          a # last.ret /\ a \in live[ArenaOfLast]

\* the ways an allocate ends after it has written its one byte
AfterWrite == {"grown", "map_failed"}

\* C20 as claimed: the byte that allocate writes lands at an offset greater
\* than or equal to the length the file had before the call, for every n,
\* n = 0 included.  A byte written at or behind the old end makes the file
\* longer, so as claimed every allocate that writes lengthens the file.
C20_AsClaimed ==
    [][(last'.op = "allocate" /\ last'.how \in AfterWrite) =>
          LET path == fds[handles[last'.h].fd_]
          IN  files'[path] > files[path]]_vars

====
